---- MODULE Spec2Model ----
(***************************************************************************)
(* pylinky: token-derived access scope of LinkyClient / AsyncLinkyClient   *)
(* (client.py) and the response-to-model mapping (models.py).              *)
(*                                                                         *)
(* Spec        one client object: construction from a token, the prm and   *)
(*             prms accessors, caller mutations of returned lists,         *)
(*             requests and close().                                       *)
(* MapperSpec  the pure functions IntervalReading.from_dict,               *)
(*             MeteringData.from_dict and _handle_response_error applied   *)
(*             to bounded sets of payloads and responses, and the reads    *)
(*             and attempted assignments on the mapped records.            *)
(* RequestSpec the five get_* methods of both classes.                     *)
(* LifecycleSpec  the HTTP client of one LinkyClient: bare, in a           *)
(*             with-block, through linky_client().                         *)
(* TaskSpec    one AsyncLinkyClient shared by the tasks of an event loop.  *)
(***************************************************************************)
EXTENDS Integers, Sequences, FiniteSets, TLC

VARIABLES
    phase,      \* "new" before the constructor ran, "ready" after it returned, "failed" after it raised
    cls,        \* the class under construction: "LinkyClient" or "AsyncLinkyClient"
    token,      \* self._token: the token handed to the constructor
    argPrm,     \* the prm argument of the constructor (None or a string)
    c_prms,     \* self._prms: a reference into heap (0 while no object exists)
    c_prm,      \* self._prm
    c_client,   \* self._client: None (0) or the identity of the open HTTP client
    nHttp,      \* number of HTTP clients created so far (identities are 1..nHttp)
    heap,       \* the list objects: heap[r] is the content of the list with reference r
    held,       \* references to lists the caller obtained from the prms accessor
    nMut,       \* number of mutations the caller applied to lists it holds
    lastGet,    \* the last GET handed to the transport
    ret,        \* what the last API call returned or raised; for a get_* call also
                \* its arguments, the response it got and the GETs it issued
    m_in,       \* mapper: the raw payload
    m_out,      \* mapper: the result of the mapping function
    m_acc,      \* mapper: the result of the last access to the mapped record
    http,       \* the HTTP clients created so far: http[i] is the state of client i
    ctx,        \* how the client object is held: "none", "plain", "with", "helper", "left"
    task        \* the tasks sharing an AsyncLinkyClient: where each one is suspended

vars == <<phase, cls, token, argPrm, c_prms, c_prm, c_client, nHttp, heap, held,
          nMut, lastGet, ret, m_in, m_out, m_acc, http, ctx, task>>

clientVars == <<phase, cls, token, argPrm, c_prms, c_prm, c_client, nHttp, heap,
                held, nMut, lastGet, ret>>

mapperVars == <<m_in, m_out, m_acc>>

sessionVars == <<http, ctx, task>>

(***************************************************************************)
(* Bounds of the model.                                                    *)
(***************************************************************************)
\* lists alive at once: the client's own list plus the copies handed out
MaxRefs == 3
\* mutations the caller applies to the lists it holds
MaxMut == 2
\* HTTP clients one client object creates
MaxHttp == 1
\* tasks sharing one AsyncLinkyClient
NTasks == 2
\* calls (requests and closes) each task makes
MaxCalls == 2
\* HTTP clients created over the life of one client object
MaxOpens == 2

(***************************************************************************)
(* JSON values as the token payload carries them.  t is the Python type,   *)
(* s the text of a str, n the value of an int/bool (or the number of keys  *)
(* of a mapping), l the elements of a list.                                *)
(***************************************************************************)
None == [t |-> "none", s |-> "", n |-> 0, l |-> <<>>]
Str(x) == [t |-> "str", s |-> x, n |-> 0, l |-> <<>>]
Num(k) == [t |-> "num", s |-> "", n |-> k, l |-> <<>>]
Bool(b) == [t |-> "bool", s |-> "", n |-> IF b THEN 1 ELSE 0, l |-> <<>>]
Map(k) == [t |-> "map", s |-> "", n |-> k, l |-> <<>>]
List(xs) == [t |-> "list", s |-> "", n |-> 0, l |-> xs]

\* Python truthiness: `not x` is ~Truthy(x)
Truthy(j) ==
    CASE j.t = "none" -> FALSE
      [] j.t = "str"  -> j.s # ""
      [] j.t = "num"  -> j.n # 0
      [] j.t = "bool" -> j.n # 0
      [] j.t = "map"  -> j.n # 0
      [] j.t = "list" -> j.l # <<>>

\* Python `x in xs` for a list xs
InList(x, xs) == \E i \in 1..Len(xs) : xs[i] = x

P1 == "12345678901234"
P2 == "98765432109876"
P3 == "99999999999999"

SubLists ==
    { <<>>,
      <<Str(P1), Str(P2)>>,
      <<Str(P2), Str(P1), Str(P1)>>,
      <<Num(5), Str(P1)>> }

SubClaims ==
    {None, Str(""), Str(P1), Num(0), Num(5), Bool(FALSE), Bool(TRUE),
     Map(0), Map(1)} \cup {List(xs) : xs \in SubLists}

\* A token: whether jwt.decode can decode it and, if so, the payload's "sub".
Tokens ==
    {[decodable |-> FALSE, has_sub |-> FALSE, sub |-> None]}
    \cup {[decodable |-> TRUE, has_sub |-> FALSE, sub |-> None]}
    \cup {[decodable |-> TRUE, has_sub |-> TRUE, sub |-> c] : c \in SubClaims}

PrmArgs == {None, Str(P1), Str(P3), Str("")}

(***************************************************************************)
(* Results of calls: ok with a value, or an exception.                     *)
(***************************************************************************)
Ok(v) == [ok |-> TRUE, val |-> v, exc |-> "", arg |-> None]
Raise(e, a) == [ok |-> FALSE, val |-> <<>>, exc |-> e, arg |-> a]

\* payload.get("sub")
PayloadGetSub(tok) == IF tok.has_sub THEN tok.sub ELSE None

\* variant: duplicates of the claim dropped, first occurrences kept
RECURSIVE Dedup(_)
Dedup(xs) ==
    IF xs = <<>> THEN <<>>
    ELSE LET front == Dedup(SubSeq(xs, 1, Len(xs) - 1)) IN
         IF InList(xs[Len(xs)], front) THEN front ELSE Append(front, xs[Len(xs)])

_extract_prms_dedup(tok) ==
    IF ~tok.decodable THEN Raise("InvalidTokenError", None)
    ELSE LET sub == PayloadGetSub(tok) IN
         IF ~Truthy(sub) THEN Raise("InvalidTokenError", None)
         ELSE IF sub.t = "str" THEN Ok(<<sub>>)
         ELSE IF sub.t = "list" THEN Ok(Dedup(sub.l))
         ELSE Raise("InvalidTokenError", None)

\* variant: only a list is taken as a scope
_extract_prms_list_only(tok) ==
    IF ~tok.decodable THEN Raise("InvalidTokenError", None)
    ELSE LET sub == PayloadGetSub(tok) IN
         IF ~Truthy(sub) THEN Raise("InvalidTokenError", None)
         ELSE IF sub.t = "list" THEN Ok(sub.l)
         ELSE Raise("InvalidTokenError", None)

\* variant: jwt.DecodeError is not caught
_extract_prms_uncaught(tok) ==
    IF ~tok.decodable THEN Raise("DecodeError", None)
    ELSE LET sub == PayloadGetSub(tok) IN
         IF ~Truthy(sub) THEN Raise("InvalidTokenError", None)
         ELSE IF sub.t = "str" THEN Ok(<<sub>>)
         ELSE IF sub.t = "list" THEN Ok(sub.l)
         ELSE Raise("InvalidTokenError", None)

\* _extract_prms(token)
_extract_prms(tok) ==
    IF ~tok.decodable THEN Raise("InvalidTokenError", None)
    ELSE LET sub == PayloadGetSub(tok) IN
         IF ~Truthy(sub) THEN Raise("InvalidTokenError", None)
         ELSE IF sub.t = "str" THEN Ok(<<sub>>)
         ELSE IF sub.t = "list" THEN Ok(sub.l)
         ELSE Raise("InvalidTokenError", None)

\* variant: the requested prm is taken without the membership check
LinkyClient_init_unchecked(tok, prm) ==
    LET e == _extract_prms(tok) IN
    IF ~e.ok THEN e
    ELSE IF prm # None THEN Ok([prms |-> e.val, prm |-> prm])
    ELSE Ok([prms |-> e.val, prm |-> e.val[1]])

\* LinkyClient.__init__ from the call of _extract_prms on: the pair
\* (_prms, _prm) it leaves in the object, or the exception it raises.
LinkyClient_init(tok, prm) ==
    LET e == _extract_prms(tok) IN
    IF ~e.ok THEN e
    ELSE IF prm # None
         THEN IF ~InList(prm, e.val) THEN Raise("PRMAccessError", prm)
              ELSE Ok([prms |-> e.val, prm |-> prm])
         ELSE Ok([prms |-> e.val, prm |-> e.val[1]])

\* AsyncLinkyClient.__init__, likewise
AsyncLinkyClient_init(tok, prm) ==
    LET e == _extract_prms(tok) IN
    IF ~e.ok THEN e
    ELSE IF prm # None
         THEN IF ~InList(prm, e.val) THEN Raise("PRMAccessError", prm)
              ELSE Ok([prms |-> e.val, prm |-> prm])
         ELSE Ok([prms |-> e.val, prm |-> e.val[1]])

\* variant: the accessor returns self._prms itself
LinkyClient_prms_alias(h, self_prms) == [heap |-> h, ref |-> self_prms]

\* LinkyClient.prms: self._prms.copy() allocates a new list object with the
\* same elements; the result is the heap after the call and the reference
\* returned.
LinkyClient_prms(h, self_prms) ==
    [heap |-> Append(h, h[self_prms]), ref |-> Len(h) + 1]

\* variant: the accessor returns self._prms itself
AsyncLinkyClient_prms_alias(h, self_prms) == [heap |-> h, ref |-> self_prms]

\* AsyncLinkyClient.prms
AsyncLinkyClient_prms(h, self_prms) ==
    [heap |-> Append(h, h[self_prms]), ref |-> Len(h) + 1]

\* LinkyClient.prm / AsyncLinkyClient.prm
Client_prm(self_prm) == self_prm

(***************************************************************************)
(* Text.  A Python str that the code inspects character by character is a  *)
(* sequence of one-character strings.                                      *)
(***************************************************************************)
Digits == {"0", "1", "2", "3", "4", "5", "6", "7", "8", "9"}

DigitVal(c) ==
    CASE c = "0" -> 0 [] c = "1" -> 1 [] c = "2" -> 2 [] c = "3" -> 3
      [] c = "4" -> 4 [] c = "5" -> 5 [] c = "6" -> 6 [] c = "7" -> 7
      [] c = "8" -> 8 [] c = "9" -> 9

AllDigits(s) == \A i \in 1..Len(s) : s[i] \in Digits

RECURSIVE DecVal(_)
DecVal(s) ==
    IF s = <<>> THEN 0
    ELSE DecVal(SubSeq(s, 1, Len(s) - 1)) * 10 + DigitVal(s[Len(s)])

\* c in s
HasChar(s, c) == \E i \in 1..Len(s) : s[i] = c

\* s.replace(a, b) for one-character a and b
Replace(s, a, b) == [i \in 1..Len(s) |-> IF s[i] = a THEN b ELSE s[i]]

RECURSIVE LStrip(_)
LStrip(s) == IF s # <<>> /\ s[1] = " " THEN LStrip(Tail(s)) ELSE s

RECURSIVE RStrip(_)
RStrip(s) ==
    IF s # <<>> /\ s[Len(s)] = " " THEN RStrip(SubSeq(s, 1, Len(s) - 1)) ELSE s

\* int(s) for a str s: surrounding blanks, an optional sign, decimal digits.
\* (Digit-group underscores are not modelled; no input of the model has one.)
PyInt(s) ==
    LET u == RStrip(LStrip(s))
        signed == u # <<>> /\ u[1] \in {"+", "-"}
        body == IF signed THEN Tail(u) ELSE u
    IN  IF body = <<>> \/ ~AllDigits(body) THEN Raise("ValueError", Str("int"))
        ELSE Ok(IF signed /\ u[1] = "-" THEN 0 - DecVal(body) ELSE DecVal(body))

(***************************************************************************)
(* datetime.date / datetime.datetime values.  kind tells the two classes   *)
(* apart; a date has no time of day (h, mi, sec are 0 and unused).         *)
(***************************************************************************)
DateValue(y, mo, d) ==
    [kind |-> "date", y |-> y, mo |-> mo, d |-> d, h |-> 0, mi |-> 0, sec |-> 0]

DateTimeValue(y, mo, d, h, mi, sec) ==
    [kind |-> "datetime", y |-> y, mo |-> mo, d |-> d, h |-> h, mi |-> mi, sec |-> sec]

\* a == b for date/datetime objects: a datetime never equals a plain date
PyDateEq(a, b) == a = b

\* datetime.date(): the calendar date of a datetime
DatePart(v) == DateValue(v.y, v.mo, v.d)

IsLeap(y) == (y % 4 = 0) /\ ((y % 100 # 0) \/ (y % 400 = 0))

DaysInMonth(y, mo) ==
    IF mo = 2 THEN (IF IsLeap(y) THEN 29 ELSE 28)
    ELSE IF mo \in {4, 6, 9, 11} THEN 30 ELSE 31

\* the YYYY-MM-DD form
WellFormedDate(s) ==
    /\ Len(s) = 10
    /\ s[5] = "-" /\ s[8] = "-"
    /\ AllDigits(SubSeq(s, 1, 4)) /\ AllDigits(SubSeq(s, 6, 7))
    /\ AllDigits(SubSeq(s, 9, 10))

ValidYMD(y, mo, d) ==
    /\ y >= 1
    /\ mo >= 1 /\ mo <= 12
    /\ d >= 1 /\ d <= DaysInMonth(y, mo)

\* date.fromisoformat(s), for the YYYY-MM-DD form
date_fromisoformat(s) ==
    IF ~WellFormedDate(s) THEN Raise("ValueError", Str("isoformat"))
    ELSE LET y == DecVal(SubSeq(s, 1, 4))
             mo == DecVal(SubSeq(s, 6, 7))
             d == DecVal(SubSeq(s, 9, 10))
         IN  IF ValidYMD(y, mo, d) THEN Ok(DateValue(y, mo, d))
             ELSE Raise("ValueError", Str("isoformat"))

\* the HH, HH:MM and HH:MM:SS forms
WellFormedTime(t) ==
    /\ Len(t) \in {2, 5, 8}
    /\ AllDigits(SubSeq(t, 1, 2))
    /\ Len(t) >= 5 => (t[3] = ":" /\ AllDigits(SubSeq(t, 4, 5)))
    /\ Len(t) >= 8 => (t[6] = ":" /\ AllDigits(SubSeq(t, 7, 8)))

\* datetime.fromisoformat(s), for YYYY-MM-DD followed by one separator
\* character and a time of day without fraction or offset
datetime_fromisoformat(s) ==
    IF Len(s) = 10
    THEN LET r == date_fromisoformat(s) IN
         IF r.ok THEN Ok(DateTimeValue(r.val.y, r.val.mo, r.val.d, 0, 0, 0)) ELSE r
    ELSE IF Len(s) < 12 THEN Raise("ValueError", Str("isoformat"))
    ELSE LET r == date_fromisoformat(SubSeq(s, 1, 10))
             t == SubSeq(s, 12, Len(s))
         IN  IF ~r.ok THEN r
             ELSE IF ~WellFormedTime(t) THEN Raise("ValueError", Str("isoformat"))
             ELSE LET h == DecVal(SubSeq(t, 1, 2))
                      mi == IF Len(t) >= 5 THEN DecVal(SubSeq(t, 4, 5)) ELSE 0
                      sec == IF Len(t) >= 8 THEN DecVal(SubSeq(t, 7, 8)) ELSE 0
                  IN  IF h <= 23 /\ mi <= 59 /\ sec <= 59
                      THEN Ok(DateTimeValue(r.val.y, r.val.mo, r.val.d, h, mi, sec))
                      ELSE Raise("ValueError", Str("isoformat"))

(***************************************************************************)
(* models.py                                                               *)
(***************************************************************************)
\* d.get(k) for an optional str entry of a dict d
DictGet(d, k) == IF k \in d.keys THEN Str(d[k]) ELSE None

\* MeasurementKind(value)
MeasurementKind(v) ==
    CASE v = "energy" -> Ok("ENERGY")
      [] v = "power"  -> Ok("POWER")
      [] OTHER        -> Raise("ValueError", Str("MeasurementKind"))

\* variant: a value outside the enumeration is kept as it is
Aggregate_passthrough(v) ==
    CASE v = "sum"     -> Ok("SUM")
      [] v = "average" -> Ok("AVERAGE")
      [] v = "maximum" -> Ok("MAXIMUM")
      [] OTHER         -> Ok(v)

\* Aggregate(value)
Aggregate(v) ==
    CASE v = "sum"     -> Ok("SUM")
      [] v = "average" -> Ok("AVERAGE")
      [] v = "maximum" -> Ok("MAXIMUM")
      [] OTHER         -> Raise("ValueError", Str("Aggregate"))

\* variant: only the T separator is recognised
ParseReadingDate_T_only(date_str) ==
    IF HasChar(date_str, "T") THEN datetime_fromisoformat(date_str)
    ELSE date_fromisoformat(date_str)

\* variant: the time of day is dropped after parsing
ParseReadingDate_truncated(date_str) ==
    IF HasChar(date_str, "T") \/ HasChar(date_str, " ")
    THEN LET r == datetime_fromisoformat(Replace(date_str, " ", "T")) IN
         IF r.ok THEN Ok(DatePart(r.val)) ELSE r
    ELSE date_fromisoformat(date_str)

\* the date of a reading, from its source string
ParseReadingDate(date_str) ==
    IF HasChar(date_str, "T") \/ HasChar(date_str, " ")
    THEN datetime_fromisoformat(Replace(date_str, " ", "T"))
    ELSE date_fromisoformat(date_str)

\* IntervalReading.from_dict(data)
IntervalReading_from_dict(data) ==
    IF "date" \notin data.keys THEN Raise("KeyError", Str("date"))
    ELSE LET parsed_date == ParseReadingDate(data.date) IN
         IF ~parsed_date.ok THEN parsed_date
         ELSE IF "value" \notin data.keys THEN Raise("KeyError", Str("value"))
         ELSE LET v == PyInt(data.value) IN
              IF ~v.ok THEN v
              ELSE Ok([value |-> v.val,
                       date |-> parsed_date.val,
                       interval_length |-> DictGet(data, "interval_length"),
                       measure_type |-> DictGet(data, "measure_type")])

\* ReadingType(...) as MeteringData.from_dict builds it from data["reading_type"]
ReadingTypeOf(rt) ==
    IF "unit" \notin rt.keys THEN Raise("KeyError", Str("unit"))
    ELSE IF "measurement_kind" \notin rt.keys
         THEN Raise("KeyError", Str("measurement_kind"))
    ELSE LET k == MeasurementKind(rt.measurement_kind) IN
         IF ~k.ok THEN k
         ELSE IF "aggregate" \notin rt.keys THEN Raise("KeyError", Str("aggregate"))
         ELSE LET a == Aggregate(rt.aggregate) IN
              IF ~a.ok THEN a
              ELSE Ok([unit |-> rt.unit,
                       measurement_kind |-> k.val,
                       aggregate |-> a.val,
                       measuring_period |-> DictGet(rt, "measuring_period")])

\* variant: the readings come out in the opposite order
RECURSIVE ReadingsOf_reversed(_)
ReadingsOf_reversed(rs) ==
    IF rs = <<>> THEN Ok(<<>>)
    ELSE LET first == IntervalReading_from_dict(Head(rs)) IN
         IF ~first.ok THEN first
         ELSE LET rest == ReadingsOf_reversed(Tail(rs)) IN
              IF ~rest.ok THEN rest ELSE Ok(Append(rest.val, first.val))

\* variant: the readings before the first entry that raises are kept
RECURSIVE ReadingsOf_partial(_)
ReadingsOf_partial(rs) ==
    IF rs = <<>> THEN Ok(<<>>)
    ELSE LET first == IntervalReading_from_dict(Head(rs)) IN
         IF ~first.ok THEN Ok(<<>>)
         ELSE Ok(<<first.val>> \o ReadingsOf_partial(Tail(rs)).val)

\* tuple(IntervalReading.from_dict(r) for r in rs): the first entry that
\* raises ends the whole construction with its exception
RECURSIVE ReadingsOf(_)
ReadingsOf(rs) ==
    IF rs = <<>> THEN Ok(<<>>)
    ELSE LET first == IntervalReading_from_dict(Head(rs)) IN
         IF ~first.ok THEN first
         ELSE LET rest == ReadingsOf(Tail(rs)) IN
              IF ~rest.ok THEN rest ELSE Ok(<<first.val>> \o rest.val)

\* variant: the entry is read whether or not the key is present
GetIntervalReading_strict(data) == data.interval_reading

\* data.get("interval_reading", [])
GetIntervalReading(data) ==
    IF "interval_reading" \in data.keys THEN data.interval_reading ELSE <<>>

\* MeteringData.from_dict(data)
MeteringData_from_dict(data) ==
    IF "reading_type" \notin data.keys THEN Raise("KeyError", Str("reading_type"))
    ELSE LET reading_type == ReadingTypeOf(data.reading_type) IN
         IF ~reading_type.ok THEN reading_type
         ELSE LET readings == ReadingsOf(GetIntervalReading(data)) IN
              IF ~readings.ok THEN readings
              ELSE IF "usage_point_id" \notin data.keys
                   THEN Raise("KeyError", Str("usage_point_id"))
              ELSE IF "start" \notin data.keys THEN Raise("KeyError", Str("start"))
              ELSE LET start == date_fromisoformat(data.start) IN
                   IF ~start.ok THEN start
                   ELSE IF "end" \notin data.keys THEN Raise("KeyError", Str("end"))
                   ELSE LET end == date_fromisoformat(data.end) IN
                        IF ~end.ok THEN end
                        ELSE IF "quality" \notin data.keys
                             THEN Raise("KeyError", Str("quality"))
                        ELSE Ok([usage_point_id |-> data.usage_point_id,
                                 start |-> start.val,
                                 end |-> end.val,
                                 quality |-> data.quality,
                                 reading_type |-> reading_type.val,
                                 interval_reading |-> readings.val])

\* sum(r.value for r in readings)
RECURSIVE SumValues(_)
SumValues(rs) == IF rs = <<>> THEN 0 ELSE Head(rs).value + SumValues(Tail(rs))

\* MeteringData.total
MeteringData_total(data) == Ok(SumValues(data.interval_reading))

Abs(n) == IF n < 0 THEN 0 - n ELSE n

RECURSIVE Gcd(_, _)
Gcd(a, b) == IF b = 0 THEN a ELSE Gcd(b, a % b)

\* A float that is the quotient of two integers, kept as the fraction
\* num/den in lowest terms (den > 0); 0.0 is 0/1.
Float(n, d) ==
    LET g == Gcd(Abs(n), d) IN
    [kind |-> "float", num |-> n \div g, den |-> d \div g]

\* a / b for integers a and b: a float, or ZeroDivisionError
TrueDiv(a, b) ==
    IF b = 0 THEN Raise("ZeroDivisionError", None)
    ELSE IF b < 0 THEN Ok(Float(0 - a, 0 - b)) ELSE Ok(Float(a, b))

\* variant: the division is made whether or not there are readings
MeteringData_average_unguarded(data) ==
    TrueDiv(SumValues(data.interval_reading), Len(data.interval_reading))

\* MeteringData.average
MeteringData_average(data) ==
    IF data.interval_reading = <<>> THEN Ok(Float(0, 1))
    ELSE TrueDiv(MeteringData_total(data).val, Len(data.interval_reading))

\* variant: a dataclass that is not frozen
Plain_setattr(obj, name, v) ==
    [obj |-> [obj EXCEPT ![name] = v], r |-> Ok(None)]

\* obj.<name> = v for a field of a dataclass(frozen=True): the assignment
\* raises and the object keeps its fields
Frozen_setattr(obj, name, v) ==
    [obj |-> obj, r |-> Raise("FrozenInstanceError", Str(name))]

\* IntervalReading is dataclass(frozen=True, slots=True)
IntervalReading_setattr(obj, name, v) == Frozen_setattr(obj, name, v)

\* MeteringData is dataclass(frozen=True, slots=True)
MeteringData_setattr(obj, name, v) == Frozen_setattr(obj, name, v)

(***************************************************************************)
(* client.py: requests                                                     *)
(***************************************************************************)
DigitChar(n) ==
    CASE n = 0 -> "0" [] n = 1 -> "1" [] n = 2 -> "2" [] n = 3 -> "3"
      [] n = 4 -> "4" [] n = 5 -> "5" [] n = 6 -> "6" [] n = 7 -> "7"
      [] n = 8 -> "8" [] n = 9 -> "9"

Pad2(n) == <<DigitChar((n \div 10) % 10), DigitChar(n % 10)>>

Pad4(n) == Pad2(n \div 100) \o Pad2(n % 100)

\* date.isoformat()
date_isoformat(v) == Pad4(v.y) \o <<"-">> \o Pad2(v.mo) \o <<"-">> \o Pad2(v.d)

\* today - timedelta(days=1)
DayBefore(v) ==
    IF v.d > 1 THEN DateValue(v.y, v.mo, v.d - 1)
    ELSE IF v.mo > 1 THEN DateValue(v.y, v.mo - 1, DaysInMonth(v.y, v.mo - 1))
    ELSE DateValue(v.y - 1, 12, 31)

\* _default_dates(), with date.today() = today
_default_dates(today) == [start |-> DayBefore(today), end |-> today]

\* an absent date argument
NoDate == [kind |-> "none", y |-> 0, mo |-> 0, d |-> 0, h |-> 0, mi |-> 0, sec |-> 0]

\* `x or default` for a date-or-None x: every date object is truthy
DateOr(x, default) == IF x # NoDate THEN x ELSE default

\* variant: both defaults are taken as soon as one argument is missing
GetArgs_both_defaults(data_type, start, end, today) ==
    IF start = NoDate \/ end = NoDate
    THEN [data_type |-> data_type,
          start |-> _default_dates(today).start,
          end |-> _default_dates(today).end]
    ELSE [data_type |-> data_type, start |-> start, end |-> end]

\* The arguments a get_* method passes to _request: the endpoint and the
\* date range.
GetArgs(data_type, start, end, today) ==
    IF start = NoDate \/ end = NoDate
    THEN [data_type |-> data_type,
          start |-> DateOr(start, _default_dates(today).start),
          end |-> DateOr(end, _default_dates(today).end)]
    ELSE [data_type |-> data_type, start |-> start, end |-> end]

get_daily_consumption(start, end, today) ==
    GetArgs("daily_consumption", start, end, today)

get_consumption_load_curve(start, end, today) ==
    GetArgs("consumption_load_curve", start, end, today)

get_max_power(start, end, today) ==
    GetArgs("consumption_max_power", start, end, today)

get_daily_production(start, end, today) ==
    GetArgs("daily_production", start, end, today)

get_production_load_curve(start, end, today) ==
    GetArgs("production_load_curve", start, end, today)

Methods ==
    {"get_daily_consumption", "get_consumption_load_curve", "get_max_power",
     "get_daily_production", "get_production_load_curve"}

CallMethod(m, start, end, today) ==
    CASE m = "get_daily_consumption" -> get_daily_consumption(start, end, today)
      [] m = "get_consumption_load_curve" -> get_consumption_load_curve(start, end, today)
      [] m = "get_max_power" -> get_max_power(start, end, today)
      [] m = "get_daily_production" -> get_daily_production(start, end, today)
      [] m = "get_production_load_curve" -> get_production_load_curve(start, end, today)

\* the GET that _request hands to the HTTP client `via`
GetRequest(a, self_prm, via) ==
    [path |-> a.data_type,
     prm |-> self_prm,
     start |-> date_isoformat(a.start),
     end |-> date_isoformat(a.end),
     via |-> via]

NoGet == [path |-> "", prm |-> None, start |-> <<>>, end |-> <<>>, via |-> 0]

\* response.is_success
IsSuccess(status) == status >= 200 /\ status <= 299

\* `a or b` for two optional strings
StrOr(a, b) == IF Truthy(a) THEN a ELSE b

\* The message _handle_response_error extracts.  A response whose body is a
\* JSON object gives body.get("error") or body.get("message"); any other
\* body gives the response text, or None when the text is empty.
ResponseMessage(response) ==
    IF response.is_json THEN StrOr(response.error, response.message)
    ELSE IF response.text # "" THEN Str(response.text) ELSE None

\* variant: only status 500 is a server error
_handle_response_error_only_500(response) ==
    IF IsSuccess(response.status) THEN Ok(None)
    ELSE LET message == ResponseMessage(response) IN
         IF response.status = 400
         THEN Raise("BadRequestError",
                    [status_code |-> 400, message |-> StrOr(message, Str("Bad request"))])
         ELSE IF response.status = 401
         THEN Raise("AuthenticationError",
                    [status_code |-> 401,
                     message |-> StrOr(message, Str("Authentication failed"))])
         ELSE IF response.status = 500
         THEN Raise("ServerError",
                    [status_code |-> response.status,
                     message |-> StrOr(message, Str("Server error"))])
         ELSE Raise("APIError",
                    [status_code |-> response.status, message |-> message])

\* _handle_response_error(response): returns, or raises by status code
_handle_response_error(response) ==
    IF IsSuccess(response.status) THEN Ok(None)
    ELSE LET message == ResponseMessage(response) IN
         IF response.status = 400
         THEN Raise("BadRequestError",
                    [status_code |-> 400, message |-> StrOr(message, Str("Bad request"))])
         ELSE IF response.status = 401
         THEN Raise("AuthenticationError",
                    [status_code |-> 401,
                     message |-> StrOr(message, Str("Authentication failed"))])
         ELSE IF response.status >= 500
         THEN Raise("ServerError",
                    [status_code |-> response.status,
                     message |-> StrOr(message, Str("Server error"))])
         ELSE Raise("APIError",
                    [status_code |-> response.status, message |-> message])

\* _request after the GET returned `response`: the record, or the exception
HandleResponse(response) ==
    LET e == _handle_response_error(response) IN
    IF ~e.ok THEN e
    ELSE IF ~response.is_json THEN Raise("JSONDecodeError", None)
    ELSE MeteringData_from_dict(response.data)

\* a newly created httpx client: open, never closed, no GET handed to it
\* after its close began
NewHttpClient == [open |-> TRUE, closes |-> 0, late |-> FALSE]

\* client.close() / client.aclose() on HTTP client id
HttpClose(h, id) == [h EXCEPT ![id].open = FALSE, ![id].closes = @ + 1]

\* client.get(...) on HTTP client id
HttpGet(h, id) == [h EXCEPT ![id].late = @ \/ ~h[id].open]

\* LinkyClient._get_client()
LinkyClient_get_client(self_client, h) ==
    IF self_client = 0
    THEN [client |-> Len(h) + 1, http |-> Append(h, NewHttpClient)]
    ELSE [client |-> self_client, http |-> h]

\* AsyncLinkyClient._get_client()
AsyncLinkyClient_get_client(self_client, h) ==
    IF self_client = 0
    THEN [client |-> Len(h) + 1, http |-> Append(h, NewHttpClient)]
    ELSE [client |-> self_client, http |-> h]

\* variant: the HTTP client is closed and kept
LinkyClient_close_keep(self_client, h) ==
    IF self_client # 0
    THEN [client |-> self_client, http |-> HttpClose(h, self_client)]
    ELSE [client |-> self_client, http |-> h]

\* LinkyClient.close()
LinkyClient_close(self_client, h) ==
    IF self_client # 0
    THEN [client |-> 0, http |-> HttpClose(h, self_client)]
    ELSE [client |-> self_client, http |-> h]

\* AsyncLinkyClient.close() up to its await: aclose() is called on the HTTP
\* client when there is one, and the coroutine is suspended in it
AsyncLinkyClient_close_begin(self_client, h) ==
    IF self_client # 0
    THEN [suspend |-> TRUE, http |-> HttpClose(h, self_client)]
    ELSE [suspend |-> FALSE, http |-> h]

\* LinkyClient.__exit__(exc_type, exc_val, exc_tb): the arguments are not read
LinkyClient_exit(self_client, h) == LinkyClient_close(self_client, h)

\* the finally clause of linky_client()
linky_client_finally(self_client, h) == LinkyClient_close(self_client, h)

\* variant: a response with a server error status is asked for a second time
_request_retry(a, self_prm, got, response) ==
    LET get == GetRequest(a, self_prm, got.client)
        e == _handle_response_error(response)
        again == response.status >= 500
    IN [client |-> got.client,
        http |-> IF again THEN HttpGet(HttpGet(got.http, got.client), got.client)
                 ELSE HttpGet(got.http, got.client),
        gets |-> IF again THEN <<get, get>> ELSE <<get>>,
        mapped |-> IF e.ok /\ response.is_json THEN 1 ELSE 0,
        r |-> HandleResponse(response)]

\* _request(data_type, start, end) on the HTTP client _get_client() gave
\* (got), when the server answers the GET with response: the GETs issued, the
\* number of calls of MeteringData.from_dict, and what is returned or raised
_request(a, self_prm, got, response) ==
    LET e == _handle_response_error(response) IN
    [client |-> got.client,
     http |-> HttpGet(got.http, got.client),
     gets |-> <<GetRequest(a, self_prm, got.client)>>,
     mapped |-> IF e.ok /\ response.is_json THEN 1 ELSE 0,
     r |-> HandleResponse(response)]

(***************************************************************************)
(* Payloads.  A dict is a record with the set of keys it has (keys); the   *)
(* entry of a key that is not in keys is never read.                       *)
(***************************************************************************)
ReadingDict(ks, v, d, il, mt) ==
    [keys |-> ks, value |-> v, date |-> d, interval_length |-> il, measure_type |-> mt]

ReadingTypeDict(ks, u, k, a, p) ==
    [keys |-> ks, unit |-> u, measurement_kind |-> k, aggregate |-> a,
     measuring_period |-> p]

MeteringDict(ks, id, s, e, q, rt, rs) ==
    [keys |-> ks, usage_point_id |-> id, start |-> s, end |-> e, quality |-> q,
     reading_type |-> rt, interval_reading |-> rs]

ReadingKeys == {"value", "date", "interval_length", "measure_type"}
ReadingTypeKeys == {"unit", "measurement_kind", "aggregate", "measuring_period"}
MeteringKeys ==
    {"usage_point_id", "start", "end", "quality", "reading_type", "interval_reading"}
RequiredKeys == MeteringKeys \ {"interval_reading"}

S_2024_01_01 == <<"2", "0", "2", "4", "-", "0", "1", "-", "0", "1">>
S_2024_01_02 == <<"2", "0", "2", "4", "-", "0", "1", "-", "0", "2">>
S_2024_01_03 == <<"2", "0", "2", "4", "-", "0", "1", "-", "0", "3">>
S_2024_01_04 == <<"2", "0", "2", "4", "-", "0", "1", "-", "0", "4">>
S_2024_01_15 == <<"2", "0", "2", "4", "-", "0", "1", "-", "1", "5">>
S_2024_02_29 == <<"2", "0", "2", "4", "-", "0", "2", "-", "2", "9">>
S_2023_02_29 == <<"2", "0", "2", "3", "-", "0", "2", "-", "2", "9">>
S_2024_1_15 == <<"2", "0", "2", "4", "-", "1", "-", "1", "5">>
S_2024_13_01 == <<"2", "0", "2", "4", "-", "1", "3", "-", "0", "1">>
S_14_30_00 == <<"1", "4", ":", "3", "0", ":", "0", "0">>
S_14_30 == <<"1", "4", ":", "3", "0">>
S_00_00_00 == <<"0", "0", ":", "0", "0", ":", "0", "0">>
S_25_00_00 == <<"2", "5", ":", "0", "0", ":", "0", "0">>
S_11776 == <<"1", "1", "7", "7", "6">>
S_14401 == <<"1", "4", "4", "0", "1">>
S_12820 == <<"1", "2", "8", "2", "0">>
S_456 == <<"4", "5", "6">>
S_450 == <<"4", "5", "0">>
S_380 == <<"3", "8", "0">>
S_abc == <<"a", "b", "c">>

DateParts == {S_2024_01_15, S_2024_02_29, S_2023_02_29, S_2024_1_15}
TimeParts == {S_14_30_00, S_14_30, S_00_00_00, S_25_00_00}
Separators == {"T", " "}

\* date, separator, time of day
Stamp(d, sep, t) == d \o <<sep>> \o t

DateStrs ==
    DateParts
    \cup {Stamp(d, sep, t) : d \in DateParts, sep \in Separators, t \in TimeParts}
    \cup {<<>>, S_2024_01_15 \o <<"T">>, Stamp(S_2024_01_15, " ", S_14_30_00) \o <<" ">>,
          Stamp(S_2024_01_15, "x", S_14_30_00)}

ValueStrs == {S_456, <<"0">>, <<"-", "3">>, <<" ", "5", " ">>, <<>>, S_abc}

ReadingKeySets ==
    {{"value", "date"}, {"value", "date", "interval_length"},
     {"value", "date", "measure_type"}, {"date"}, {"value"}}

ReadingInputs ==
    {ReadingDict(ks, v, d, "PT30M", "B") :
        ks \in ReadingKeySets, v \in ValueStrs, d \in DateStrs}

Daily(v, d) == ReadingDict({"value", "date"}, v, d, "", "")
Curve(v, d) == ReadingDict({"value", "date", "interval_length"}, v, d, "PT30M", "")

\* the three readings of the daily-consumption sample
DailyReadings ==
    <<Daily(S_11776, S_2024_01_01), Daily(S_14401, S_2024_01_02),
      Daily(S_12820, S_2024_01_03)>>

ReadingLists ==
    {<<>>,
     DailyReadings,
     <<Daily(S_456, S_2024_01_15)>>,
     <<Curve(S_450, Stamp(S_2024_01_01, "T", S_00_00_00)),
       Curve(S_380, Stamp(S_2024_01_01, " ", S_14_30_00))>>,
     <<Daily(S_abc, S_2024_01_01), Daily(S_14401, S_2024_01_02)>>,
     <<Daily(S_11776, S_2024_01_01), Daily(S_abc, S_2024_01_02),
       Daily(S_12820, S_2024_01_03)>>,
     <<Daily(S_11776, S_2024_01_01), Daily(S_14401, S_2024_01_02),
       Daily(S_12820, S_2023_02_29)>>}

ReadingTypeInputs ==
    {ReadingTypeDict(ReadingTypeKeys, "Wh", "energy", "sum", "P1D"),
     ReadingTypeDict(ReadingTypeKeys \ {"measuring_period"}, "W", "power", "average", ""),
     ReadingTypeDict(ReadingTypeKeys, "VA", "power", "maximum", "P1D"),
     ReadingTypeDict(ReadingTypeKeys, "Wh", "ENERGY", "sum", "P1D"),
     ReadingTypeDict(ReadingTypeKeys, "Wh", "energy", "total", "P1D"),
     ReadingTypeDict(ReadingTypeKeys \ {"unit"}, "", "energy", "sum", "P1D"),
     ReadingTypeDict(ReadingTypeKeys \ {"aggregate"}, "Wh", "energy", "", "P1D")}

MeteringKeySets == {MeteringKeys} \cup {MeteringKeys \ {k} : k \in MeteringKeys}

MeteringInputs ==
    {MeteringDict(ks, P1, s, e, "BRUT", rt, rs) :
        ks \in MeteringKeySets,
        s \in {S_2024_01_01, S_2024_13_01},
        e \in {S_2024_01_04, Stamp(S_2024_01_04, "T", S_00_00_00)},
        rt \in ReadingTypeInputs,
        rs \in ReadingLists}

\* the daily-consumption sample response
DailyConsumptionResponse ==
    MeteringDict(MeteringKeys, P1, S_2024_01_01, S_2024_01_04, "BRUT",
                 ReadingTypeDict(ReadingTypeKeys, "Wh", "energy", "sum", "P1D"),
                 DailyReadings)

\* a body that is not a metering record
EmptyBody ==
    MeteringDict({}, "", <<>>, <<>>, "", ReadingTypeDict({}, "", "", "", ""), <<>>)

\* an HTTP response: status, whether the body is a JSON object, its
\* "error" and "message" entries, its text, and the body as a payload
Response(st, js, err, msg, txt, data) ==
    [status |-> st, is_json |-> js, error |-> err, message |-> msg, text |-> txt,
     data |-> data]

Responses ==
    {Response(200, TRUE, None, None, "{}", DailyConsumptionResponse),
     Response(200, TRUE, None, None, "{}", EmptyBody),
     Response(401, TRUE, Str("Invalid token"), None, "{}", EmptyBody)}

\* date.today() when the request is made
Today == DateValue(2024, 3, 1)

\* date.today() at the calls of the request specification
Todays == {Today, DateValue(2025, 1, 1)}

\* the start and end arguments of the get_* methods
RequestDates == {NoDate, DateValue(2024, 1, 1), DateValue(2024, 12, 31)}

\* responses by status: the three of Responses, a server error without a
\* body, a JSON error with a "message" entry, a success whose body is not JSON
StatusResponses ==
    Responses
    \cup {Response(500, FALSE, None, None, "", EmptyBody),
          Response(404, TRUE, None, Str("Not found"), "{}", EmptyBody),
          Response(200, FALSE, None, None, "<html>", EmptyBody)}

\* HTTP status codes on both sides of every test _handle_response_error makes
Statuses ==
    {100, 199, 200, 204, 299, 300, 302, 399, 400, 401, 402, 403, 404, 429, 499,
     500, 503, 599}

\* error bodies: JSON objects with "error", with "message", with both, with
\* neither, with an empty "error"; a text body; an empty body
ErrorBodies ==
    {[is_json |-> TRUE, error |-> Str("Invalid token"), message |-> None, text |-> "{}"],
     [is_json |-> TRUE, error |-> None, message |-> Str("Not found"), text |-> "{}"],
     [is_json |-> TRUE, error |-> Str("E"), message |-> Str("M"), text |-> "{}"],
     [is_json |-> TRUE, error |-> None, message |-> None, text |-> "{}"],
     [is_json |-> TRUE, error |-> Str(""), message |-> Str("M"), text |-> "{}"],
     [is_json |-> FALSE, error |-> None, message |-> None, text |-> "Bad Gateway"],
     [is_json |-> FALSE, error |-> None, message |-> None, text |-> ""]}

ResponseInputs ==
    {Response(st, b.is_json, b.error, b.message, b.text, EmptyBody) :
        st \in Statuses, b \in ErrorBodies}

\* the tokens of the request, lifecycle and task specifications
SinglePrmToken == [decodable |-> TRUE, has_sub |-> TRUE, sub |-> Str(P1)]
MultiPrmToken ==
    [decodable |-> TRUE, has_sub |-> TRUE, sub |-> List(<<Str(P1), Str(P2)>>)]
UndecodableToken == [decodable |-> FALSE, has_sub |-> FALSE, sub |-> None]

RequestTokens == {SinglePrmToken, MultiPrmToken}
RequestPrmArgs == {None, Str(P2)}
LifecycleTokens == {SinglePrmToken, MultiPrmToken, UndecodableToken}

\* the assignments a caller attempts on mapped records
\* (field name |-> value assigned)
ReadingAssignments == [value |-> 200, interval_length |-> Str("PT10M")]

MeteringAssignments == [quality |-> "AUTRE", interval_reading |-> <<>>]

(***************************************************************************)
(* What the last API call returned or raised.                              *)
(***************************************************************************)
\* no response / no get_* call
NoResponse == Response(0, FALSE, None, None, "", EmptyBody)

NoCall ==
    [method |-> "", start |-> NoDate, end |-> NoDate, today |-> NoDate,
     response |-> NoResponse, gets |-> <<>>, mapped |-> 0]

Returned(op, v) == [op |-> op, ok |-> TRUE, exc |-> "", val |-> v, call |-> NoCall]
Raised(op, e, a) == [op |-> op, ok |-> FALSE, exc |-> e, val |-> a, call |-> NoCall]
NoRet == [op |-> "none", ok |-> TRUE, exc |-> "", val |-> None, call |-> NoCall]

ResultOf(op, r) == IF r.ok THEN Returned(op, r.val) ELSE Raised(op, r.exc, r.arg)

NoInput == [kind |-> "none", d |-> <<>>]
NoOutput == [op |-> "none", r |-> Ok(None)]

(***************************************************************************)
(* The caller's mutations of a list it holds.                              *)
(***************************************************************************)
Mutations == {"append", "remove", "reverse", "clear"}

Reverse(xs) == [i \in 1..Len(xs) |-> xs[Len(xs) + 1 - i]]

Mutated(m, xs) ==
    CASE m = "append"  -> Append(xs, Str(P3))
      [] m = "remove"  -> IF xs = <<>> THEN xs ELSE Tail(xs)
      [] m = "reverse" -> Reverse(xs)
      [] m = "clear"   -> <<>>

(***************************************************************************)
(* Spec: one client object                                                 *)
(***************************************************************************)
MapperIdle == m_in = NoInput /\ m_out = NoOutput /\ m_acc = NoOutput

Tasks == 1..NTasks

IdleTask == [pc |-> "idle", client |-> 0, calls |-> 0]

SessionIdle ==
    /\ http = <<>>
    /\ ctx = "none"
    /\ task = [t \in Tasks |-> IdleTask]

Init ==
    /\ phase = "new"
    /\ cls = "none"
    /\ token = [decodable |-> FALSE, has_sub |-> FALSE, sub |-> None]
    /\ argPrm = None
    /\ c_prms = 0
    /\ c_prm = None
    /\ c_client = 0
    /\ nHttp = 0
    /\ heap = <<>>
    /\ held = {}
    /\ nMut = 0
    /\ lastGet = NoGet
    /\ ret = NoRet
    /\ MapperIdle
    /\ SessionIdle

\* LinkyClient(token, prm=prm) / AsyncLinkyClient(token, prm=prm), held as c:
\* "plain" for a bare constructor call, "with" for `with LinkyClient(...)`,
\* "helper" for `with linky_client(...)`
Construct(k, r, tok, prm, c) ==
    /\ phase = "new"
    /\ cls' = k
    /\ token' = tok
    /\ argPrm' = prm
    /\ ret' = ResultOf("init", IF r.ok THEN Ok(None) ELSE r)
    /\ IF r.ok
       THEN /\ phase' = "ready"
            /\ heap' = <<r.val.prms>>
            /\ c_prms' = 1
            /\ c_prm' = r.val.prm
            /\ ctx' = c
       ELSE /\ phase' = "failed"
            /\ UNCHANGED <<heap, c_prms, c_prm, ctx>>
    /\ UNCHANGED <<c_client, nHttp, held, nMut, lastGet, mapperVars, http, task>>

ConstructSync ==
    \E tok \in Tokens, prm \in PrmArgs :
        Construct("LinkyClient", LinkyClient_init(tok, prm), tok, prm, "plain")

ConstructAsync ==
    \E tok \in Tokens, prm \in PrmArgs :
        Construct("AsyncLinkyClient", AsyncLinkyClient_init(tok, prm), tok, prm, "plain")

\* client.prm
ReadPrm ==
    /\ phase = "ready"
    /\ ret' = Returned("prm", Client_prm(c_prm))
    /\ UNCHANGED <<phase, cls, token, argPrm, c_prms, c_prm, c_client, nHttp, heap,
                   held, nMut, lastGet, mapperVars, sessionVars>>

\* client.prms: the caller keeps the list it gets
ReadPrms ==
    /\ phase = "ready"
    /\ Len(heap) < MaxRefs
    /\ LET r == IF cls = "LinkyClient" THEN LinkyClient_prms(heap, c_prms)
                ELSE AsyncLinkyClient_prms(heap, c_prms)
       IN  /\ heap' = r.heap
           /\ held' = held \cup {r.ref}
           /\ ret' = Returned("prms", List(r.heap[r.ref]))
    /\ UNCHANGED <<phase, cls, token, argPrm, c_prms, c_prm, c_client, nHttp, nMut,
                   lastGet, mapperVars, sessionVars>>

\* the caller mutates a list it got from client.prms
Mutate ==
    /\ phase = "ready"
    /\ nMut < MaxMut
    /\ \E r \in held, m \in Mutations :
          heap' = [heap EXCEPT ![r] = Mutated(m, @)]
    /\ nMut' = nMut + 1
    /\ ret' = NoRet
    /\ UNCHANGED <<phase, cls, token, argPrm, c_prms, c_prm, c_client, nHttp, held,
                   lastGet, mapperVars, sessionVars>>

\* one of the get_* methods: _get_client, the GET, _handle_response_error and
\* MeteringData.from_dict
Request(methods, dates, todays, responses, maxHttp) ==
    /\ phase = "ready"
    /\ c_client # 0 \/ Len(http) < maxHttp
    /\ \E m \in methods, start \in dates, end \in dates, today \in todays,
          response \in responses :
          LET got == IF cls = "LinkyClient" THEN LinkyClient_get_client(c_client, http)
                     ELSE AsyncLinkyClient_get_client(c_client, http)
          IN \E run \in {_request(CallMethod(m, start, end, today), c_prm, got, response)} :
             /\ c_client' = run.client
             /\ http' = run.http
             /\ nHttp' = Len(run.http)
             /\ lastGet' = run.gets[Len(run.gets)]
             /\ ret' = [ResultOf("request", run.r) EXCEPT
                            !.call = [method |-> m, start |-> start, end |-> end,
                                      today |-> today, response |-> response,
                                      gets |-> run.gets, mapped |-> run.mapped]]
    /\ UNCHANGED <<phase, cls, token, argPrm, c_prms, c_prm, heap, held, nMut,
                   mapperVars, ctx, task>>

DoRequest == Request({"get_daily_consumption"}, {NoDate}, {Today}, Responses, MaxHttp)

\* client.close(), or `await client.close()` run to its end with no other
\* task in between
Close ==
    /\ phase = "ready"
    /\ LET begun == AsyncLinkyClient_close_begin(c_client, http)
           r == IF cls = "LinkyClient" THEN LinkyClient_close(c_client, http)
                ELSE [client |-> IF begun.suspend THEN 0 ELSE c_client,
                      http |-> begun.http]
       IN /\ c_client' = r.client
          /\ http' = r.http
    /\ ret' = Returned("close", None)
    /\ UNCHANGED <<phase, cls, token, argPrm, c_prms, c_prm, nHttp, heap, held,
                   nMut, lastGet, mapperVars, ctx, task>>

Next ==
    \/ ConstructSync
    \/ ConstructAsync
    \/ ReadPrm
    \/ ReadPrms
    \/ Mutate
    \/ DoRequest
    \/ Close

Spec == Init /\ [][Next]_vars

(***************************************************************************)
(* RequestSpec: the five get_* methods of both classes                     *)
(***************************************************************************)
RequestConstructSync ==
    \E tok \in RequestTokens, prm \in RequestPrmArgs :
        Construct("LinkyClient", LinkyClient_init(tok, prm), tok, prm, "plain")

RequestConstructAsync ==
    \E tok \in RequestTokens, prm \in RequestPrmArgs :
        Construct("AsyncLinkyClient", AsyncLinkyClient_init(tok, prm), tok, prm, "plain")

\* a get_* call with any combination of date arguments, answered by the sample
QueryDates ==
    Request(Methods, RequestDates, Todays,
            {Response(200, TRUE, None, None, "{}", DailyConsumptionResponse)}, MaxHttp)

\* a get_* call without dates, answered with any status
QueryStatus == Request(Methods, {NoDate}, {Today}, StatusResponses, MaxHttp)

RequestNext ==
    \/ RequestConstructSync
    \/ RequestConstructAsync
    \/ QueryDates
    \/ QueryStatus
    \/ Close

RequestSpec == Init /\ [][RequestNext]_vars

(***************************************************************************)
(* LifecycleSpec: the HTTP client of one LinkyClient, held bare, in a      *)
(* with-block, or through linky_client()                                   *)
(***************************************************************************)
\* client = LinkyClient(token)
NewPlain ==
    \E tok \in LifecycleTokens :
        Construct("LinkyClient", LinkyClient_init(tok, None), tok, None, "plain")

\* with LinkyClient(token) as client: __enter__ returns self
EnterWith ==
    \E tok \in LifecycleTokens :
        Construct("LinkyClient", LinkyClient_init(tok, None), tok, None, "with")

\* with linky_client(token) as client: the constructor, then the yield
EnterHelper ==
    \E tok \in LifecycleTokens :
        Construct("LinkyClient", LinkyClient_init(tok, None), tok, None, "helper")

LifecycleRequest == Request(Methods, {NoDate}, {Today}, Responses, MaxOpens)

\* The block is left, at its end or by an exception of its body: __exit__
\* of the with-block, the finally clause of the helper.  Neither swallows
\* the exception.
Leave ==
    /\ phase = "ready"
    /\ ctx \in {"with", "helper"}
    /\ LET r == IF ctx = "with" THEN LinkyClient_exit(c_client, http)
                ELSE linky_client_finally(c_client, http)
       IN /\ c_client' = r.client
          /\ http' = r.http
    /\ ctx' = "left"
    /\ \E by_exception \in BOOLEAN :
          ret' = IF by_exception THEN Raised("exit", "BodyError", None)
                 ELSE Returned("exit", None)
    /\ UNCHANGED <<phase, cls, token, argPrm, c_prms, c_prm, nHttp, heap, held,
                   nMut, lastGet, mapperVars, task>>

LifecycleNext ==
    \/ NewPlain
    \/ EnterWith
    \/ EnterHelper
    \/ LifecycleRequest
    \/ Close
    \/ Leave

LifecycleSpec == Init /\ [][LifecycleNext]_vars

(***************************************************************************)
(* TaskSpec: one AsyncLinkyClient shared by the tasks of one event loop.   *)
(* A task runs until its next await; the other tasks run while it is       *)
(* suspended.                                                              *)
(***************************************************************************)
\* the state after AsyncLinkyClient(token) with the single-PRM token
TaskInit ==
    /\ phase = "ready"
    /\ cls = "AsyncLinkyClient"
    /\ token = SinglePrmToken
    /\ argPrm = None
    /\ heap = <<AsyncLinkyClient_init(SinglePrmToken, None).val.prms>>
    /\ c_prms = 1
    /\ c_prm = AsyncLinkyClient_init(SinglePrmToken, None).val.prm
    /\ c_client = 0
    /\ nHttp = 0
    /\ held = {}
    /\ nMut = 0
    /\ lastGet = NoGet
    /\ ret = Returned("init", None)
    /\ MapperIdle
    /\ http = <<>>
    /\ ctx = "plain"
    /\ task = [t \in Tasks |-> IdleTask]

\* task t calls get_daily_consumption(): _get_client(), then client.get(...)
\* is called and awaited
TaskRequestBegin(t) ==
    /\ task[t].pc = "idle"
    /\ task[t].calls < MaxCalls
    /\ c_client # 0 \/ Len(http) < MaxOpens
    /\ \E got \in {AsyncLinkyClient_get_client(c_client, http)} :
          /\ c_client' = got.client
          /\ http' = HttpGet(got.http, got.client)
          /\ nHttp' = Len(got.http)
          /\ lastGet' = GetRequest(get_daily_consumption(NoDate, NoDate, Today), c_prm,
                                   got.client)
          /\ task' = [task EXCEPT ![t] = [pc |-> "get", client |-> got.client,
                                          calls |-> @.calls + 1]]
    /\ UNCHANGED <<phase, cls, token, argPrm, c_prms, c_prm, heap, held, nMut, ret,
                   mapperVars, ctx>>

\* the response of task t's GET arrives: _handle_response_error and the mapper
TaskRequestEnd(t) ==
    /\ task[t].pc = "get"
    /\ \E response \in Responses :
          ret' = ResultOf("request", HandleResponse(response))
    /\ task' = [task EXCEPT ![t].pc = "idle", ![t].client = 0]
    /\ UNCHANGED <<phase, cls, token, argPrm, c_prms, c_prm, c_client, nHttp, heap,
                   held, nMut, lastGet, mapperVars, http, ctx>>

\* task t calls close(): the test of self._client, then aclose() is called
\* and awaited
TaskCloseBegin(t) ==
    /\ task[t].pc = "idle"
    /\ task[t].calls < MaxCalls
    /\ \E begun \in {AsyncLinkyClient_close_begin(c_client, http)} :
          /\ http' = begun.http
          /\ IF begun.suspend
             THEN /\ task' = [task EXCEPT ![t] = [pc |-> "aclose", client |-> c_client,
                                                  calls |-> @.calls + 1]]
                  /\ ret' = ret
             ELSE /\ task' = [task EXCEPT ![t].calls = @ + 1]
                  /\ ret' = Returned("close", None)
    /\ UNCHANGED <<phase, cls, token, argPrm, c_prms, c_prm, c_client, nHttp, heap,
                   held, nMut, lastGet, mapperVars, ctx>>

\* aclose() returns to task t: self._client = None
TaskCloseEnd(t) ==
    /\ task[t].pc = "aclose"
    /\ c_client' = 0
    /\ task' = [task EXCEPT ![t].pc = "idle", ![t].client = 0]
    /\ ret' = Returned("close", None)
    /\ UNCHANGED <<phase, cls, token, argPrm, c_prms, c_prm, nHttp, heap, held, nMut,
                   lastGet, mapperVars, http, ctx>>

TaskNext ==
    \E t \in Tasks :
        \/ TaskRequestBegin(t)
        \/ TaskRequestEnd(t)
        \/ TaskCloseBegin(t)
        \/ TaskCloseEnd(t)

TaskSpec == TaskInit /\ [][TaskNext]_vars

(***************************************************************************)
(* MapperSpec: the mapping functions on every payload of the input sets    *)
(***************************************************************************)
MapperInit ==
    /\ phase = "new"
    /\ cls = "none"
    /\ token = [decodable |-> FALSE, has_sub |-> FALSE, sub |-> None]
    /\ argPrm = None
    /\ c_prms = 0
    /\ c_prm = None
    /\ c_client = 0
    /\ nHttp = 0
    /\ heap = <<>>
    /\ held = {}
    /\ nMut = 0
    /\ lastGet = NoGet
    /\ ret = NoRet
    /\ m_in \in {[kind |-> "reading", d |-> r] : r \in ReadingInputs}
             \cup {[kind |-> "metering", d |-> p] : p \in MeteringInputs}
             \cup {[kind |-> "response", d |-> r] : r \in ResponseInputs}
    /\ m_out = NoOutput
    /\ m_acc = NoOutput
    /\ SessionIdle

\* IntervalReading.from_dict(m_in)
MapReading ==
    /\ m_in.kind = "reading"
    /\ m_out.op = "none"
    /\ m_out' = [op |-> "IntervalReading.from_dict", r |-> IntervalReading_from_dict(m_in.d)]
    /\ UNCHANGED <<m_in, m_acc, clientVars, sessionVars>>

\* MeteringData.from_dict(m_in)
MapMetering ==
    /\ m_in.kind = "metering"
    /\ m_out.op = "none"
    /\ m_out' = [op |-> "MeteringData.from_dict", r |-> MeteringData_from_dict(m_in.d)]
    /\ UNCHANGED <<m_in, m_acc, clientVars, sessionVars>>

\* data.total
ReadTotal ==
    /\ m_out.op = "MeteringData.from_dict"
    /\ m_out.r.ok
    /\ m_acc' = [op |-> "total", r |-> MeteringData_total(m_out.r.val)]
    /\ UNCHANGED <<m_in, m_out, clientVars, sessionVars>>

\* data.average
ReadAverage ==
    /\ m_out.op = "MeteringData.from_dict"
    /\ m_out.r.ok
    /\ m_acc' = [op |-> "average", r |-> MeteringData_average(m_out.r.val)]
    /\ UNCHANGED <<m_in, m_out, clientVars, sessionVars>>

\* reading.<field> = v on the IntervalReading just mapped
AssignReading ==
    /\ m_out.op = "IntervalReading.from_dict"
    /\ m_out.r.ok
    /\ \E name \in DOMAIN ReadingAssignments :
          LET res == IntervalReading_setattr(m_out.r.val, name, ReadingAssignments[name]) IN
          /\ m_out' = [m_out EXCEPT !.r.val = res.obj]
          /\ m_acc' = [op |-> "setattr", r |-> res.r]
    /\ UNCHANGED <<m_in, clientVars, sessionVars>>

\* data.<field> = v on the MeteringData just mapped
AssignMetering ==
    /\ m_out.op = "MeteringData.from_dict"
    /\ m_out.r.ok
    /\ \E name \in DOMAIN MeteringAssignments :
          LET res == MeteringData_setattr(m_out.r.val, name, MeteringAssignments[name]) IN
          /\ m_out' = [m_out EXCEPT !.r.val = res.obj]
          /\ m_acc' = [op |-> "setattr", r |-> res.r]
    /\ UNCHANGED <<m_in, clientVars, sessionVars>>

\* data.interval_reading[i].<field> = v on a reading of the MeteringData
AssignNested ==
    /\ m_out.op = "MeteringData.from_dict"
    /\ m_out.r.ok
    /\ \E i \in 1..Len(m_out.r.val.interval_reading), name \in DOMAIN ReadingAssignments :
          LET res == IntervalReading_setattr(m_out.r.val.interval_reading[i], name,
                                             ReadingAssignments[name]) IN
          /\ m_out' = [m_out EXCEPT !.r.val.interval_reading[i] = res.obj]
          /\ m_acc' = [op |-> "setattr", r |-> res.r]
    /\ UNCHANGED <<m_in, clientVars, sessionVars>>

\* _handle_response_error(m_in)
HandleError ==
    /\ m_in.kind = "response"
    /\ m_out = NoOutput
    /\ m_out' = [op |-> "_handle_response_error", r |-> _handle_response_error(m_in.d)]
    /\ UNCHANGED <<m_in, m_acc, clientVars, sessionVars>>

MapperNext ==
    \/ MapReading
    \/ MapMetering
    \/ HandleError
    \/ ReadTotal
    \/ ReadAverage
    \/ AssignReading
    \/ AssignMetering
    \/ AssignNested

MapperSpec == MapperInit /\ [][MapperNext]_vars

(***************************************************************************)
(* Properties of the token scope (Spec)                                    *)
(***************************************************************************)
Constructed == phase # "new"
Ready == phase = "ready"

\* the identifiers a subject claim grants, read off the claim itself
ClaimScope(sub) == IF sub.t = "str" THEN <<sub>> ELSE sub.l
ClaimIds(sub) == {ClaimScope(sub)[i] : i \in 1..Len(ClaimScope(sub))}

\* the token decodes and its subject claim is a non-empty string or list
Resolvable(tok) ==
    /\ tok.decodable
    /\ tok.has_sub
    /\ \/ tok.sub.t = "str" /\ tok.sub.s # ""
       \/ tok.sub.t = "list" /\ tok.sub.l # <<>>

\* C1: constructing a client with a decodable token and an explicit prm that
\* is not among the identifiers of the token fails with PRMAccessError whose
\* prm attribute is the requested identifier, and no client object exists.
C1_OutOfScopePrmDenied ==
    (/\ Constructed
     /\ Resolvable(token)
     /\ argPrm # None
     /\ argPrm \notin ClaimIds(token.sub))
    => /\ phase = "failed"
       /\ ret = Raised("init", "PRMAccessError", argPrm)
       /\ c_prms = 0
       /\ heap = <<>>

C1_Witness ==
    /\ phase = "failed"
    /\ cls = "LinkyClient"
    /\ token.sub = List(<<Str(P1), Str(P2)>>)
    /\ argPrm = Str(P3)
    /\ ret.exc = "PRMAccessError"

\* C2: for a token whose subject claim is a sequence of two or more elements
\* and no explicit prm, the active identifier is the first element and the
\* scope is the claim sequence, same order, duplicates kept; the accessors
\* return these values.
MultiElementSub ==
    /\ Constructed
    /\ token.decodable
    /\ token.has_sub
    /\ token.sub.t = "list"
    /\ Len(token.sub.l) >= 2
    /\ argPrm = None

C2_MultiSubScope ==
    MultiElementSub
    => /\ phase = "ready"
       /\ c_prm = token.sub.l[1]
       /\ heap[c_prms] = token.sub.l
       /\ ret.op = "prm" => ret.val = token.sub.l[1]
       /\ ret.op = "prms" => ret.val = List(token.sub.l)

C2_Witness ==
    /\ MultiElementSub
    /\ token.sub.l = <<Str(P2), Str(P1), Str(P1)>>
    /\ ret.op = "prms"
    /\ ret.val = List(<<Str(P2), Str(P1), Str(P1)>>)

\* C3 as stated: for every token with a single-string subject claim (and no
\* explicit prm) the scope is exactly that string, which is the active
\* identifier.
C3_Original ==
    (/\ Constructed
     /\ token.decodable
     /\ token.has_sub
     /\ token.sub.t = "str"
     /\ argPrm = None)
    => /\ phase = "ready"
       /\ heap[c_prms] = <<token.sub>>
       /\ c_prm = token.sub

\* C3 amended: for every token whose subject claim is a single non-empty
\* string, with no explicit prm or with that string as explicit prm, the
\* scope has exactly one identifier, that string, and it is the active
\* identifier; the empty string is rejected with InvalidTokenError.
SingleStringSub ==
    /\ Constructed
    /\ token.decodable
    /\ token.has_sub
    /\ token.sub.t = "str"

C3_SingleStringScope ==
    /\ (SingleStringSub /\ token.sub.s # "" /\ argPrm \in {None, token.sub})
       => /\ phase = "ready"
          /\ Len(heap[c_prms]) = 1
          /\ heap[c_prms] = <<token.sub>>
          /\ c_prm = token.sub
          /\ ret.op = "prms" => ret.val = List(<<token.sub>>)
          /\ ret.op = "prm" => ret.val = token.sub
    /\ (SingleStringSub /\ token.sub.s = "")
       => /\ phase = "failed"
          /\ ret = Raised("init", "InvalidTokenError", None)

C3_Witness ==
    /\ SingleStringSub
    /\ token.sub = Str(P1)
    /\ argPrm = None
    /\ ret.op = "prms"
    /\ ret.val = List(<<Str(P1)>>)

\* C4: in every state of a constructed client, after any requests, accessor
\* reads, caller mutations of returned lists and close() calls, the scope is
\* non-empty, the active identifier is a member of it, and both are what the
\* constructor derived from the token and the prm argument.
C4_ScopeInvariant ==
    Ready
    => /\ c_prms = 1
       /\ Len(heap[c_prms]) > 0
       /\ InList(c_prm, heap[c_prms])
       /\ heap[c_prms] = _extract_prms(token).val
       /\ c_prm = (IF argPrm = None THEN _extract_prms(token).val[1] ELSE argPrm)

C4_Witness ==
    /\ Ready
    /\ nMut >= 1
    /\ held # {}
    /\ nHttp >= 1
    /\ lastGet # NoGet
    /\ c_client = 0
    /\ ret.op = "close"

\* C5: the prms accessor returns a defensive copy: whatever the caller did to
\* the lists it got before, a read of prms returns the sequence of the
\* token's claim, and prm returns the active identifier.
C5_DefensiveCopy ==
    /\ (Ready /\ ret.op = "prms") => ret.val = List(ClaimScope(token.sub))
    /\ (Ready /\ ret.op = "prm")
       => ret.val = (IF argPrm = None THEN ClaimScope(token.sub)[1] ELSE argPrm)

C5_Witness ==
    /\ Ready
    /\ cls = "AsyncLinkyClient"
    /\ nMut >= 1
    /\ ret.op = "prms"
    /\ \E r \in held : heap[r] # ClaimScope(token.sub)

\* C6: the subject claim is accepted only when it is a single string or a
\* sequence of strings; any other shape (number, boolean, mapping, a sequence
\* with a non-string element) and the empty sequence fail with
\* InvalidTokenError.
StringOrStrings(sub) ==
    \/ sub.t = "str"
    \/ /\ sub.t = "list"
       /\ sub.l # <<>>
       /\ \A i \in 1..Len(sub.l) : sub.l[i].t = "str"

C6_OnlyStringsAccepted ==
    (/\ Constructed
     /\ token.decodable
     /\ token.has_sub
     /\ ~StringOrStrings(token.sub))
    => /\ phase = "failed"
       /\ ret.exc = "InvalidTokenError"

\* C7: construction fails with InvalidTokenError whenever the token cannot be
\* decoded or its payload has no subject claim, whatever prm was requested.
C7_InvalidTokenFirst ==
    (Constructed /\ (~token.decodable \/ ~token.has_sub))
    => /\ phase = "failed"
       /\ ret = Raised("init", "InvalidTokenError", None)
       /\ c_prms = 0

C7_Witness ==
    /\ phase = "failed"
    /\ ~token.decodable
    /\ argPrm = Str(P3)
    /\ ret.exc = "InvalidTokenError"

(***************************************************************************)
(* Properties of the mapper (MapperSpec)                                   *)
(***************************************************************************)
ReadingDone == m_out.op = "IntervalReading.from_dict"
MeteringDone == m_out.op = "MeteringData.from_dict"

\* a reading whose value entry is present and numeric
NumericValue(d) ==
    /\ {"value", "date"} \subseteq d.keys
    /\ d.value \in {S_456, <<"0">>, <<"-", "3">>, <<" ", "5", " ">>}

HasTimeComponent(s) ==
    \E d \in DateParts, sep \in Separators, t \in TimeParts : s = Stamp(d, sep, t)

MalformedResponse(r) == ~r.ok /\ r.exc \in {"KeyError", "ValueError"}

\* everything but interval_reading is present and well formed
WellFormedHead(p) ==
    /\ RequiredKeys \subseteq p.keys
    /\ p.start = S_2024_01_01
    /\ p.end = S_2024_01_04
    /\ {"unit", "measurement_kind", "aggregate"} \subseteq p.reading_type.keys
    /\ p.reading_type.measurement_kind \in {"energy", "power"}
    /\ p.reading_type.aggregate \in {"sum", "average", "maximum"}

\* C10: MeteringData.from_dict fails (a lookup error, the MalformedResponse
\* condition) when one of usage_point_id, start, end, quality, reading_type
\* is missing, and maps a payload whose interval_reading is absent or empty
\* to a record with no readings.
C10_RequiredKeys ==
    MeteringDone
    => /\ (RequiredKeys \ m_in.d.keys # {}) => MalformedResponse(m_out.r)
       /\ \A k \in RequiredKeys :
             (/\ k \notin m_in.d.keys
              /\ WellFormedHead([m_in.d EXCEPT !.keys = @ \cup {k}])
              /\ GetIntervalReading(m_in.d) \in {<<>>, DailyReadings})
             => m_out.r = Raise("KeyError", Str(k))
       /\ (/\ WellFormedHead(m_in.d)
           /\ \/ "interval_reading" \notin m_in.d.keys
              \/ m_in.d.interval_reading = <<>>)
          => /\ m_out.r.ok
             /\ m_out.r.val.interval_reading = <<>>

C10_Witness ==
    /\ MeteringDone
    /\ "interval_reading" \notin m_in.d.keys
    /\ m_in.d.interval_reading # <<>>
    /\ m_out.r.ok
    /\ m_out.r.val.interval_reading = <<>>

\* the reading_type entry carries a measurement_kind or an aggregate that is
\* not a member of its enumeration
UnrecognizedEnum(rt) ==
    \/ /\ "measurement_kind" \in rt.keys
       /\ rt.measurement_kind \notin {"energy", "power"}
    \/ /\ "aggregate" \in rt.keys
       /\ rt.aggregate \notin {"sum", "average", "maximum"}

\* C11: MeteringData.from_dict on a payload whose reading_type has an
\* unrecognized measurement_kind or aggregate always fails with a malformed
\* response error (ValueError or KeyError); when the rest of the payload is
\* complete the error is the enumeration's ValueError, and no record carrying
\* the raw string is ever returned.
C11_UnrecognizedEnumRaises ==
    (/\ MeteringDone
     /\ "reading_type" \in m_in.d.keys
     /\ UnrecognizedEnum(m_in.d.reading_type))
        => /\ MalformedResponse(m_out.r)
           /\ {"unit", "measurement_kind", "aggregate"} \subseteq m_in.d.reading_type.keys
                 => m_out.r.exc = "ValueError"

C11_Witness ==
    /\ MeteringDone
    /\ MeteringKeys \subseteq m_in.d.keys
    /\ ReadingTypeKeys \subseteq m_in.d.reading_type.keys
    /\ m_in.d.reading_type.measurement_kind = "energy"
    /\ m_in.d.reading_type.aggregate = "total"
    /\ m_out.r = Raise("ValueError", Str("Aggregate"))

\* the sum of the first n values of rs
RECURSIVE SumOfFirst(_, _)
SumOfFirst(rs, n) == IF n = 0 THEN 0 ELSE SumOfFirst(rs, n - 1) + rs[n].value

\* a MeteringData record has been mapped
Mapped == MeteringDone /\ m_out.r.ok

\* C12: on every mapped MeteringData, total is the sum of the values of its
\* readings (0 when there are none) and average is total divided by the
\* number of readings, or 0.0 when there are none, never an error; the values
\* 11776, 14401, 12820 give total 38997 and average 12999.0.
C12_TotalAndAverage ==
    Mapped =>
        LET rs == m_out.r.val.interval_reading IN
        /\ m_acc.op = "total" =>
              /\ m_acc.r.ok
              /\ m_acc.r.val = SumOfFirst(rs, Len(rs))
              /\ rs = <<>> => m_acc.r.val = 0
        /\ m_acc.op = "average" =>
              /\ m_acc.r.ok
              /\ m_acc.r.val.den > 0
              /\ m_acc.r.val.num * Len(rs) = SumOfFirst(rs, Len(rs)) * m_acc.r.val.den
              /\ rs = <<>> => m_acc.r.val = Float(0, 1)
        /\ (Len(rs) = 3 /\ rs[1].value = 11776 /\ rs[2].value = 14401 /\ rs[3].value = 12820)
              => /\ m_acc.op = "total" => m_acc.r.val = 38997
                 /\ m_acc.op = "average" => m_acc.r.val = Float(12999, 1)

C12_Witness ==
    /\ Mapped
    /\ m_out.r.val.interval_reading = <<>>
    /\ m_acc.op = "average"
    /\ m_acc.r = Ok(Float(0, 1))

\* the payload's interval_reading list, empty when the key is absent
SourceReadings(p) == IF "interval_reading" \in p.keys THEN p.interval_reading ELSE <<>>

\* C13: the record MeteringData.from_dict produces from a well-formed payload
\* has the payload's usage_point_id and quality strings, start and end dates
\* whose YYYY-MM-DD form is the payload's start and end strings, and one
\* reading per entry of the payload's interval_reading list, in list order.
C13_RoundTrip ==
    Mapped =>
        LET p == m_in.d
            v == m_out.r.val
        IN /\ v.usage_point_id = p.usage_point_id
           /\ v.quality = p.quality
           /\ v.start.kind = "date" /\ date_isoformat(v.start) = p.start
           /\ v.end.kind = "date" /\ date_isoformat(v.end) = p.end
           /\ Len(v.interval_reading) = Len(SourceReadings(p))
           /\ \A i \in 1..Len(v.interval_reading) :
                 Ok(v.interval_reading[i]) = IntervalReading_from_dict(SourceReadings(p)[i])

C13_Witness ==
    /\ Mapped
    /\ m_in.d.interval_reading = DailyReadings
    /\ Len(m_out.r.val.interval_reading) = 3
    /\ m_out.r.val.interval_reading[1].value = 11776
    /\ m_out.r.val.interval_reading[3].value = 12820
    /\ m_out.r.val.start = DateValue(2024, 1, 1)
    /\ m_out.r.val.end = DateValue(2024, 1, 4)

\* a record (IntervalReading or MeteringData) has been mapped
AnyMapped == m_out.op # "none" /\ m_out.r.ok

\* C16: once a record is mapped no step changes it: an assignment to one of
\* its fields, or to a field of one of its readings, fails with an error and
\* leaves the record as it was, and reading total or average gives a result
\* that depends on the record alone, the same at every read, and leaves the
\* record and its readings as they were.
C16_NeverMutated ==
    [][AnyMapped =>
         /\ m_out' = m_out
         /\ m_acc'.op = "setattr" => ~m_acc'.r.ok
         /\ m_acc'.op = "total" => m_acc'.r = MeteringData_total(m_out.r.val)
         /\ m_acc'.op = "average" => m_acc'.r = MeteringData_average(m_out.r.val)
         /\ (m_acc.op \in {"total", "average"} /\ m_acc'.op = m_acc.op)
               => m_acc'.r = m_acc.r]_vars

C16_Witness ==
    /\ Mapped
    /\ m_out.r.val.interval_reading # <<>>
    /\ m_acc.op = "setattr"
    /\ m_acc.r = Raise("FrozenInstanceError", Str("value"))
    /\ m_out.r.val.interval_reading[1].value = 11776

\* an entry of interval_reading whose value string is not numeric or whose
\* date string cannot be parsed
BadEntry(e) ==
    /\ {"value", "date"} \subseteq e.keys
    /\ \/ ~PyInt(e.value).ok
       \/ ~ParseReadingDate(e.date).ok

\* C17: a payload with a bad entry anywhere in interval_reading makes
\* MeteringData.from_dict fail with a malformed response error; no record is
\* returned, in particular none holding the readings before the bad entry.
C17_AllOrNothing ==
    (/\ MeteringDone
     /\ \E i \in 1..Len(SourceReadings(m_in.d)) : BadEntry(SourceReadings(m_in.d)[i]))
        => MalformedResponse(m_out.r)

C17_Witness ==
    /\ MeteringDone
    /\ WellFormedHead(m_in.d)
    /\ "interval_reading" \in m_in.d.keys
    /\ Len(m_in.d.interval_reading) = 3
    /\ ~BadEntry(m_in.d.interval_reading[1])
    /\ ~BadEntry(m_in.d.interval_reading[2])
    /\ BadEntry(m_in.d.interval_reading[3])
    /\ m_out.r.exc = "ValueError"

ErrorDone == m_out.op = "_handle_response_error"

\* the error class the status code selects
ErrorClassOf(status) ==
    CASE status = 400  -> "BadRequestError"
      [] status = 401  -> "AuthenticationError"
      [] status >= 500 -> "ServerError"
      [] OTHER         -> "APIError"

\* C14: _handle_response_error raises nothing on a 2xx status and on any other
\* status raises exactly the error its code selects (400 BadRequestError, 401
\* AuthenticationError, 500 and above ServerError, otherwise APIError), which
\* carries that status code; its message is the body's "error" entry when the
\* body has a non-empty one, else the body's "message" entry.
C14_ErrorByStatus ==
    ErrorDone =>
        LET response == m_in.d
            r == m_out.r
        IN /\ (response.status >= 200 /\ response.status <= 299) => r.ok
           /\ ~(response.status >= 200 /\ response.status <= 299) =>
                 /\ ~r.ok
                 /\ r.exc = ErrorClassOf(response.status)
                 /\ r.arg.status_code = response.status
                 /\ (response.is_json /\ Truthy(response.error))
                       => r.arg.message = response.error
                 /\ (response.is_json /\ ~Truthy(response.error)
                        /\ Truthy(response.message))
                       => r.arg.message = response.message

C14_Witness ==
    /\ ErrorDone
    /\ m_in.d.status = 503
    /\ m_in.d.is_json
    /\ m_in.d.error = None
    /\ m_in.d.message = Str("Not found")
    /\ m_out.r = Raise("ServerError",
                       [status_code |-> 503, message |-> Str("Not found")])

RequestDone == ret.op = "request"

ErrorClasses == {"BadRequestError", "AuthenticationError", "ServerError", "APIError"}

\* C15: a get_* call of either class issues exactly one GET, whatever the
\* status of the response; MeteringData.from_dict runs at most once and only
\* when the status is a success; on any other status the call raises the
\* error of that status and the mapper does not run.
C15_OneGetPerCall ==
    RequestDone =>
        LET call == ret.call IN
        /\ Len(call.gets) = 1
        /\ call.mapped \in {0, 1}
        /\ call.mapped = 1 => IsSuccess(call.response.status)
        /\ ~IsSuccess(call.response.status) =>
              /\ call.mapped = 0
              /\ ~ret.ok
              /\ ret.exc \in ErrorClasses
              /\ ret.exc = ErrorClassOf(call.response.status)

C15_Witness ==
    /\ RequestDone
    /\ cls = "AsyncLinkyClient"
    /\ ret.call.response.status = 500
    /\ ret.exc = "ServerError"
    /\ Len(ret.call.gets) = 1
    /\ ret.call.mapped = 0

\* the endpoint of each method
EndpointOf(m) ==
    CASE m = "get_daily_consumption"      -> "daily_consumption"
      [] m = "get_consumption_load_curve" -> "consumption_load_curve"
      [] m = "get_max_power"              -> "consumption_max_power"
      [] m = "get_daily_production"       -> "daily_production"
      [] m = "get_production_load_curve"  -> "production_load_curve"

\* the calendar day that follows v
DayAfter(v) ==
    IF v.d < DaysInMonth(v.y, v.mo) THEN DateValue(v.y, v.mo, v.d + 1)
    ELSE IF v.mo < 12 THEN DateValue(v.y, v.mo + 1, 1)
    ELSE DateValue(v.y + 1, 1, 1)

\* s has the form YYYY-MM-DD
IsoDateForm(s) ==
    /\ Len(s) = 10
    /\ s[5] = "-" /\ s[8] = "-"
    /\ \A i \in {1, 2, 3, 4, 6, 7, 9, 10} : s[i] \in Digits

\* C18: the GET of a get_* call carries the client's active identifier as
\* prm, a member of the client's scope; start and end are YYYY-MM-DD strings
\* that denote the caller's arguments, a missing start being the day before
\* today and a missing end today, each whether or not the other is given; and
\* the path is the endpoint of the method called.
C18_GetParameters ==
    RequestDone =>
        LET call == ret.call
            get == call.gets[1]
        IN /\ get.prm = c_prm
           /\ InList(get.prm, heap[c_prms])
           /\ IsoDateForm(get.start) /\ IsoDateForm(get.end)
           /\ call.start # NoDate => date_fromisoformat(get.start) = Ok(call.start)
           /\ call.start = NoDate =>
                 /\ date_fromisoformat(get.start).ok
                 /\ DayAfter(date_fromisoformat(get.start).val) = call.today
           /\ call.end # NoDate => date_fromisoformat(get.end) = Ok(call.end)
           /\ call.end = NoDate => date_fromisoformat(get.end) = Ok(call.today)
           /\ get.path = EndpointOf(call.method)

C18_Witness ==
    /\ RequestDone
    /\ ret.call.method = "get_max_power"
    /\ ret.call.start = NoDate
    /\ ret.call.end = DateValue(2024, 12, 31)
    /\ ret.call.today = DateValue(2025, 1, 1)
    /\ ret.call.gets[1].path = "consumption_max_power"
    /\ ret.call.gets[1].prm = Str(P2)
    /\ ret.call.gets[1].start = <<"2", "0", "2", "4", "-", "1", "2", "-", "3", "1">>
    /\ ret.call.gets[1].end = <<"2", "0", "2", "4", "-", "1", "2", "-", "3", "1">>

\* the HTTP clients that are open
OpenClients == {i \in 1..Len(http) : http[i].open}

\* C19: a LinkyClient has at most one open HTTP client, the one it refers to;
\* it has none after the constructor, after close() and after a with-block or
\* the linky_client helper is left, at its end or by an exception; a request
\* uses the open HTTP client when there is one and opens a new one when there
\* is none, also after close(); close() with none open changes nothing; no
\* HTTP client is closed twice and none is used after it was closed.
C19_SyncLifecycle ==
    /\ [](/\ Cardinality(OpenClients) <= 1
          /\ OpenClients = IF c_client = 0 THEN {} ELSE {c_client}
          /\ \A i \in 1..Len(http) : http[i].closes <= 1 /\ ~http[i].late
          /\ ret.op = "init" => c_client = 0 /\ http = <<>>
          /\ ret.op \in {"close", "exit"} => c_client = 0
          /\ RequestDone => c_client # 0 /\ ret.call.gets[1].via = c_client)
    /\ [][/\ (ret'.op = "request" /\ c_client # 0)
                => c_client' = c_client /\ http' = http
          /\ (ret'.op = "request" /\ c_client = 0)
                => c_client' = Len(http) + 1 /\ Len(http') = Len(http) + 1
          /\ (ret'.op = "close" /\ c_client = 0)
                => c_client' = 0 /\ http' = http]_vars

C19_Witness ==
    /\ RequestDone
    /\ ctx = "left"
    /\ Len(http) = 2
    /\ ~http[1].open
    /\ http[1].closes = 1
    /\ http[2].open
    /\ c_client = 2
    /\ ret.ok

\* C20: for an AsyncLinkyClient shared by several tasks, no HTTP client has
\* aclose() called on it more than once, no GET is handed to an HTTP client
\* whose close has begun, and the requests of several tasks that find no HTTP
\* client create one between them (at most one is open at any time).
C20_AsyncCloseSafe ==
    /\ \A i \in 1..Len(http) : http[i].closes <= 1 /\ ~http[i].late
    /\ Cardinality(OpenClients) <= 1

====
